---------------------------- MODULE Spec2Model ----------------------------
(***************************************************************************)
(* Model of code/submitGears/submitFmriprep.py: the function               *)
(* submitFmriprep(csvFile, overwrite_existing) reads a fixed-layout         *)
(* spreadsheet, derives the default configuration and the input columns,   *)
(* and then, for every data row, looks the session up, builds the inputs   *)
(* and config maps, checks for an analysis with the same label and calls   *)
(* gear.run.                                                                *)
(*                                                                         *)
(* Strings are sequences of one-character strings, so that lower(), split  *)
(* and replace are computed character by character.  A Python value is a   *)
(* record [t, s]: t is its type ("str", "bool", "nan", "file") and s is    *)
(* what str() returns for it.                                               *)
(***************************************************************************)
EXTENDS Integers, Sequences, FiniteSets, TLC

\* ------------------------------------------------------------------ bounds
\* The largest number of data rows (rows 7 onward) of a spreadsheet.
MaxRows == 2
\* The largest number of entries in the default-config key and value lists.
MaxTokens == 2

\* ------------------------------------------------------- program constants
\* spreadsheet.loc[0,1]: the project label.
ProjectLabelCol == 1
\* spreadsheet.loc[0,4]: the gear name.
GearNameCol == 4
\* spreadsheet.loc[0,8]: the default config keys.
ConfigKeysCol == 8
\* spreadsheet.loc[0,10]: the default config values.
ConfigValsCol == 10
\* spreadsheet.loc[1,:]: the row naming the inputs.
InputNameRow == 1
\* spreadsheet.loc[4, input_index]: the row classifying the columns.
RoleRow == 4
\* starting_index = 6
StartingIndexInit == 6
\* spreadsheet.loc[7:,0]: the first data row.
FirstDataRow == 7

\* ------------------------------------------------------------------ strings
sTrue == <<"t","r","u","e">>
sFalse == <<"f","a","l","s","e">>
sCapTrue == <<"T","r","u","e">>
sCapFalse == <<"F","a","l","s","e">>
sUpTrue == <<"T","R","U","E">>
sUpFalse == <<"F","A","L","S","E">>
sYes == <<"y","e","s">>
sT == <<"t">>
sOne == <<"1">>
sNan == <<"n","a","n">>
sA == <<"a">>
sB == <<"b">>
sQuotedA == <<"'","a","'">>
sProject == <<"p","r","o","j","e","c","t">>
sConfig == <<"c","o","n","f","i","g">>
sInputs == <<"i","n","p","u","t","s">>
sTag == <<"a","n","a","l","y","s","i","s","S","u","b","m","i","s","s","i","o","n","T","a","g">>
sNever == <<"n","e","v","e","r">>
sFailed == <<"f","a","i","l","e","d">>
sAll == <<"a","l","l">>

UpperLetters == <<"A","B","C","D","E","F","G","H","I","J","K","L","M",
                  "N","O","P","Q","R","S","T","U","V","W","X","Y","Z">>
LowerLetters == <<"a","b","c","d","e","f","g","h","i","j","k","l","m",
                  "n","o","p","q","r","s","t","u","v","w","x","y","z">>

\* str.lower() on one character.
LowerChar(c) ==
    IF \E i \in 1..Len(UpperLetters) : UpperLetters[i] = c
    THEN LowerLetters[CHOOSE i \in 1..Len(UpperLetters) : UpperLetters[i] = c]
    ELSE c

\* str.lower()
Lower(s) == [i \in 1..Len(s) |-> LowerChar(s[i])]

\* str.split(c): the pieces of s between the occurrences of c.
RECURSIVE Split(_, _)
Split(s, c) ==
    IF \A i \in 1..Len(s) : s[i] # c
    THEN <<s>>
    ELSE LET i == CHOOSE j \in 1..Len(s) :
                      s[j] = c /\ \A k \in 1..(j-1) : s[k] # c
         IN  <<SubSeq(s, 1, i-1)>> \o Split(SubSeq(s, i+1, Len(s)), c)

\* str.replace(c, '')
Remove(s, c) == SelectSeq(s, LAMBDA x : x # c)

Min(a, b) == IF a <= b THEN a ELSE b

\* ------------------------------------------------------------------- values
Str(s) == [t |-> "str", s |-> s]
Bool(b) == [t |-> "bool", s |-> IF b THEN sCapTrue ELSE sCapFalse]
NaN == [t |-> "nan", s |-> sNan]
FileRef(name) == [t |-> "file", s |-> name]

\* def str2bool(v): return str(v).lower() in ("yes", "true", "t", "1")
str2bool(v) == Bool(Lower(v.s) \in {sYes, sTrue, sT, sOne})

\* The test that guards every use of str2bool:
\* x == 'true' or x == 'false' or x == 'True' or x == 'False'.
IsBoolLiteral(v) == v.t = "str" /\ v.s \in {sTrue, sFalse, sCapTrue, sCapFalse}

\* A slip in CoerceDefault: str2bool without its guard.
CoerceDefaultUnguarded(v) == IF v.t = "str" THEN str2bool(v) ELSE v

\* Lines 24-25: the coercion of a default value.
CoerceDefault(v) == IF IsBoolLiteral(v) THEN str2bool(v) ELSE v

\* Lines 59-60: the coercion of a resolved project input.
CoerceInput(v) == IF IsBoolLiteral(v) THEN str2bool(v) ELSE v

\* Lines 66-67: the coercion of a resolved config value.
CoerceConfig(v) == IF IsBoolLiteral(v) THEN str2bool(v) ELSE v

\* -------------------------------------------------- the default-config cells
\* cell.split('{')[1].split('}')[0]: the text between the first '{' and the
\* next '}'.  The caller checks that Split(cell, "{") has a second piece.
Braced(cell) == Split(Split(cell, "{")[2], "}")[1]

\* Line 20: the list of the default config keys (quotes are removed).
ParseKeys(cell) == Split(Remove(Braced(cell), "'"), ",")

\* Line 21: the list of the default config values.
ParseVals(cell) == Split(Braced(cell), ",")

\* Line 22: dict(zip(keys, vals)); zip stops at the shorter list and a
\* repeated key keeps the value of its last occurrence.
DictZip(keys, vals) ==
    LET n == Min(Len(keys), Len(vals))
    IN  [k \in {keys[i] : i \in 1..n} |->
            vals[CHOOSE i \in 1..n : keys[i] = k /\ \A j \in (i+1)..n : keys[j] # k]]

\* Lines 20-25: defaultVals from the two header cells.
ParseDefaults(keysCell, valsCell) ==
    LET d == DictZip(ParseKeys(keysCell), ParseVals(valsCell))
    IN  [k \in DOMAIN d |-> CoerceDefault(Str(d[k]))]

\* Lines 20-21 raise (IndexError, AttributeError) when a cell is empty or has
\* no '{'.
HeaderCellOk(v) == v.t = "str" /\ Len(Split(v.s, "{")) >= 2


\* -------------------------------------------------------------- spreadsheet
\* The frame pandas.read_csv returns (line 11): nrows rows, columns
\* 0..ConfigValsCol, and the cells that are not empty; an empty cell reads
\* as NaN.  (The fields keyTokens and valTokens are no part of the frame:
\* they remember the lists the two default-config cells were written from.)
loc(sheet, r, c) ==
    IF <<r, c>> \in DOMAIN sheet.cells THEN Str(sheet.cells[<<r, c>>]) ELSE NaN

RECURSIVE SortedSeq(_)
SortedSeq(S) ==
    IF S = {} THEN <<>>
    ELSE LET m == CHOOSE x \in S : \A y \in S : x <= y
         IN  <<m>> \o SortedSeq(S \ {m})

\* Lines 28-30: spreadsheet.loc[1,:][spreadsheet.loc[1,:].notnull()][1:],
\* the non-empty cells of row 1 in column order, without the first of them.
InputNames(sheet) ==
    LET cols == SortedSeq({c \in 0..ConfigValsCol : <<InputNameRow, c>> \in DOMAIN sheet.cells})
    IN  [i \in 1..(Len(cols) - 1) |-> sheet.cells[<<InputNameRow, cols[i+1]>>]]

\* Line 31: inputs.index('analysisSubmissionTag'), zero-based; the caller
\* checks that the tag is in the list (index raises ValueError otherwise).
IndexOf(list, x) ==
    (CHOOSE i \in 1..Len(list) : list[i] = x /\ \A j \in 1..(i-1) : list[j] # x) - 1

\* A slip in DataRows: the rows after row 7 only.
DataRowsAfterFirst(sheet) ==
    [i \in 1..(sheet.nrows - FirstDataRow - 1) |-> loc(sheet, FirstDataRow + i, 0)]

\* Line 47: spreadsheet.loc[7:,0], the column-0 cells of rows 7 onward.
DataRows(sheet) == [i \in 1..(sheet.nrows - FirstDataRow) |-> loc(sheet, FirstDataRow + i - 1, 0)]

\* ----------------------------------------------------------------- platform
sGear == <<"g">>
sProj == <<"p">>
sS1 == <<"s","1">>
sS2 == <<"s","2">>
sF1 == <<"f","1">>
sF2 == <<"f","2">>
sL1 == <<"L","1">>
sL2 == <<"L","2">>

\* The files of the project's file store: project.get_file raises for any
\* other name.
FwFiles == {sF1}

\* project.get_file(name) succeeds (line 58).
GetFileOk(v) == v.t = "str" /\ v.s \in FwFiles

\* ---------------------------------------------------------- the row's maps
\* The columns 1..input_length of one role (lines 53, 54, 61).
RoleCols(sheet, n, role) == {c \in 1..n : loc(sheet, RoleRow, c) = Str(role)}

\* Lines 55-60: the value of project_inputs for the column col of row r.
ProjectInputValue(sheet, defaults, r, col) ==
    LET key == loc(sheet, InputNameRow, col).s
    IN  CoerceInput(IF key \in DOMAIN defaults
                    THEN defaults[key]
                    ELSE FileRef(loc(sheet, r, col).s))

\* A slip in ProjectConfigValue: the cell is used even when the key has a
\* default.
ProjectConfigValueCellWins(sheet, defaults, r, col) ==
    CoerceConfig(loc(sheet, r, col))

\* Lines 62-67: the value of project_configs for the column col of row r.
ProjectConfigValue(sheet, defaults, r, col) ==
    LET key == loc(sheet, InputNameRow, col).s
    IN  CoerceConfig(IF key \in DOMAIN defaults
                     THEN defaults[key]
                     ELSE loc(sheet, r, col))

\* The last column of cols whose key is k: a later assignment to the same
\* key of a dict replaces the earlier one.
LastColOf(sheet, cols, k) ==
    CHOOSE c \in cols : /\ loc(sheet, InputNameRow, c).s = k
                        /\ \A d \in cols : loc(sheet, InputNameRow, d).s = k => d <= c

\* Lines 51-60: project_inputs after the loop over the columns.
BuildInputs(sheet, defaults, n, r) ==
    LET cols == RoleCols(sheet, n, sProject)
    IN  [k \in {loc(sheet, InputNameRow, c).s : c \in cols} |->
            ProjectInputValue(sheet, defaults, r, LastColOf(sheet, cols, k))]

\* Lines 52, 61-67: project_configs after the loop over the columns.
BuildConfigs(sheet, defaults, n, r) ==
    LET cols == RoleCols(sheet, n, sConfig)
    IN  [k \in {loc(sheet, InputNameRow, c).s : c \in cols} |->
            ProjectConfigValue(sheet, defaults, r, LastColOf(sheet, cols, k))]

\* Line 58 raises for some column: a 'project' column whose key has no
\* default and whose cell names no file of the project.
GetFileRaises(sheet, defaults, n, r) ==
    \E c \in RoleCols(sheet, n, sProject) :
        /\ loc(sheet, InputNameRow, c).s \notin DOMAIN defaults
        /\ ~GetFileOk(loc(sheet, r, c))

\* A slip in AnalysisLabel: the zero-based index is used as the column.
AnalysisLabelOffByOne(sheet, tagIndex, r) == loc(sheet, r, tagIndex)

\* Line 70: the analysis label of row r.
AnalysisLabel(sheet, tagIndex, r) == loc(sheet, r, tagIndex + 1)

\* Lines 73-79: one entry per existing analysis, 1 when its label is the
\* row's label.
GearWasRunBefore(analyses, label) ==
    [i \in 1..Len(analyses) |-> IF Str(analyses[i]) = label THEN 1 ELSE 0]

\* A slip in NotRunBefore: only the first analysis is looked at.
NotRunBeforeFirstOnly(flags) == \A i \in 1..Min(1, Len(flags)) : flags[i] # 1

\* Line 81: 1 not in gear_was_run_before
NotRunBefore(flags) == \A i \in 1..Len(flags) : flags[i] # 1

\* -------------------------------------------------------------------- state
VARIABLES
    spreadsheet,         \* the frame read from csvFile (line 11)
    overwrite_existing,  \* the second parameter of submitFmriprep (line 5)
    pc,                  \* the position in submitFmriprep
    raisedAt,            \* where the exception that ended the run was raised
    defaultVals,         \* line 22
    inputs,              \* line 28
    submissionTagIndex,  \* line 31
    input_length,        \* line 32
    starting_index,      \* line 44
    rowsTaken,           \* the number of items the for of line 47 has taken
    analysis_ids,        \* line 45
    fails,               \* line 46
    subjsess,            \* line 47
    session,             \* line 50
    project_inputs,      \* line 51
    project_configs,     \* line 52
    analysis_label,      \* line 70
    gear_was_run_before, \* line 74
    fwGears,             \* platform: the gears fw.lookup finds
    fwSessions,          \* platform: session name -> labels of its analyses
    fwNextId,            \* platform: the id of the next job
    fwRaises,            \* platform: request number -> gear.run raised
    calls,               \* history: the platform calls made, in order
    skipped,             \* history: the number of rows skipped as duplicates
    fwSessions0,         \* the platform's sessions when the run started
    runNo,               \* which of two successive runs this is
    firstRun             \* what the first of two runs did

progVars == <<pc, raisedAt, defaultVals, inputs, submissionTagIndex, input_length,
              starting_index, rowsTaken, analysis_ids, fails, subjsess, session,
              project_inputs, project_configs, analysis_label, gear_was_run_before>>
inVars == <<spreadsheet, overwrite_existing>>
fwVars == <<fwGears, fwSessions, fwNextId, fwRaises>>
histVars == <<calls, skipped>>
runVars == <<fwSessions0, runNo, firstRun>>
vars == <<inVars, progVars, fwVars, histVars, runVars>>

\* A local variable that has not been assigned yet.
Unbound == [t |-> "unbound", s |-> <<>>]

\* -------------------------------------------------------------- the inputs
RECURSIVE Join(_)
Join(tokens) ==
    IF Len(tokens) = 0 THEN <<>>
    ELSE IF Len(tokens) = 1 THEN tokens[1]
    ELSE tokens[1] \o <<",">> \o Join(Tail(tokens))

\* A header cell as the spreadsheet holds it: "{k1,k2}".
Format(tokens) == <<"{">> \o Join(tokens) \o <<"}">>

\* The sequences over S of length at most n.
SeqsUpTo(S, n) == UNION {[1..m -> S] : m \in 0..n}

\* The input columns of the modelled spreadsheets: the names of row 1 and
\* the roles of row 4 (no role cell for the tag column).
Layouts ==
    { [hdr |-> <<sA, sB, sTag>>, roles |-> <<sProject, sConfig, <<>> >>],
      [hdr |-> <<sTag, sB, sA>>, roles |-> << <<>>, sConfig, sProject>>],
      [hdr |-> <<sB, sTag, sA>>, roles |-> <<sConfig, <<>>, sConfig>>] }

\* The default-config cells of the modelled spreadsheets; the empty cell is
\* the malformed spreadsheet.
\* The two default-config cells written from a list of keys and a list of
\* values; the lists are kept beside the cells.
Written(K, V) == [keys |-> Format(K), vals |-> Format(V), keyTokens |-> K, valTokens |-> V]

\* The default-config cells of the modelled spreadsheets; the empty keys
\* cell is the malformed spreadsheet.
DefaultCells ==
    { Written(<< <<>> >>, << <<>> >>),
      Written(<<sQuotedA>>, <<sF2>>),
      Written(<<sB>>, <<sUpFalse>>),
      Written(<<sA, sB>>, <<sOne, sTrue>>),
      [Written(<<sA>>, <<sOne>>) EXCEPT !.keys = <<>>] }

\* One data row: the session of column 0 and the cell under each input name.
RowChoices ==
    { [sess |-> se, tag |-> l, a |-> ab[1], b |-> ab[2]] :
        se \in {sS1, sS2}, l \in {sL1, sL2},
        ab \in {<<sF1, sTrue>>, <<sF2, sUpTrue>>} }

RowCell(row, name) ==
    IF name = sTag THEN row.tag ELSE IF name = sA THEN row.a ELSE row.b

\* The frame of a spreadsheet with the given header cells, columns and rows.
MkSheet(dflt, layout, rows) ==
    LET n == Len(layout.hdr)
        all == [rc \in (0..(FirstDataRow + Len(rows) - 1)) \X (0..ConfigValsCol) |->
                  LET r == rc[1]
                      c == rc[2]
                  IN  IF r = 0 /\ c = 0 THEN sProj
                      ELSE IF r = 0 /\ c = ProjectLabelCol THEN sProj
                      ELSE IF r = 0 /\ c = GearNameCol THEN sGear
                      ELSE IF r = 0 /\ c = ConfigKeysCol THEN dflt.keys
                      ELSE IF r = 0 /\ c = ConfigValsCol THEN dflt.vals
                      ELSE IF r = InputNameRow /\ c = 0 THEN sInputs
                      ELSE IF r = InputNameRow /\ c \in 1..n THEN layout.hdr[c]
                      ELSE IF r = RoleRow /\ c \in 1..n THEN layout.roles[c]
                      ELSE IF r >= FirstDataRow /\ c = 0 THEN rows[r - FirstDataRow + 1].sess
                      ELSE IF r >= FirstDataRow /\ c \in 1..n
                           THEN RowCell(rows[r - FirstDataRow + 1], layout.hdr[c])
                      ELSE <<>>]
        filled == {rc \in DOMAIN all : all[rc] # <<>>}
    IN  [nrows |-> FirstDataRow + Len(rows), cells |-> [rc \in filled |-> all[rc]],
         keyTokens |-> dflt.keyTokens, valTokens |-> dflt.valTokens]

Sheets ==
    { MkSheet(d, l, rows) : d \in DefaultCells, l \in Layouts,
                            rows \in SeqsUpTo(RowChoices, MaxRows) }

\* The platform when a run starts: the gears that exist and the sessions of
\* gkaguirrelab/mtSinaiFlicker with the labels of their analyses.
Platforms ==
    { [gears |-> {sGear}, sessions |-> (sS1 :> <<>>) @@ (sS2 :> <<>>)],
      [gears |-> {sGear}, sessions |-> (sS1 :> <<sL1>>) @@ (sS2 :> <<sL2, sL1>>)],
      [gears |-> {sGear}, sessions |-> (sS1 :> <<sL2>>)],
      [gears |-> {}, sessions |-> (sS1 :> <<>>) @@ (sS2 :> <<>>)] }

Modes == {sNever, sFailed, sAll}

\* The program state when submitFmriprep is entered.
Entry ==
    /\ pc = "read"
    /\ raisedAt = "none"
    /\ defaultVals = <<>>
    /\ inputs = <<>>
    /\ submissionTagIndex = 0
    /\ input_length = 0
    /\ starting_index = 0
    /\ rowsTaken = 0
    /\ analysis_ids = <<>>
    /\ fails = <<>>
    /\ subjsess = Unbound
    /\ session = Unbound
    /\ project_inputs = <<>>
    /\ project_configs = <<>>
    /\ analysis_label = Unbound
    /\ gear_was_run_before = <<>>
    /\ calls = <<>>
    /\ skipped = 0

InitWith(sheets, modes) ==
    /\ spreadsheet \in sheets
    /\ overwrite_existing \in modes
    /\ \E p \in Platforms :
          /\ fwGears = p.gears
          /\ fwSessions = p.sessions
          /\ fwSessions0 = p.sessions
    /\ fwNextId = 1
    /\ fwRaises = <<>>
    /\ runNo = 1
    /\ firstRun = <<>>
    /\ Entry

Init == InitWith(Sheets, {sNever})

\* ------------------------------------------------------ the platform calls
sGearsPath == <<"g","e","a","r","s","/">>
sGroupPath == <<"g","k","a","g","u","i","r","r","e","l","a","b","/">>
sSessionPath == sGroupPath \o <<"m","t","S","i","n","a","i","F","l","i","c","k","e","r","/">>

\* One platform call: the operation, its argument, the data row it was made
\* for (0 before the loop) and whether it raised.
Call(op, arg, row, raised) == [op |-> op, arg |-> arg, row |-> row, raised |-> raised]

\* The gear.run calls among the calls.
Runs(cs) == SelectSeq(cs, LAMBDA q : q.op = "run")

\* The spreadsheet row of the item the for of line 47 took last.
CurrentRow == FirstDataRow + rowsTaken - 1

\* Line 58, over the loop of line 53: the project.get_file calls of row r, in
\* column order, up to the first that raises.
GetFileCalls(sheet, defaults, n, r, row) ==
    LET cols == SortedSeq({c \in RoleCols(sheet, n, sProject) :
                              loc(sheet, InputNameRow, c).s \notin DOMAIN defaults})
        bad == {i \in 1..Len(cols) : ~GetFileOk(loc(sheet, r, cols[i]))}
        m == IF bad = {} THEN Len(cols) ELSE CHOOSE i \in bad : \A j \in bad : i <= j
    IN  [i \in 1..m |-> Call("get_file", loc(sheet, r, cols[i]), row, i \in bad)]

\* ------------------------------------------------------------------ actions
\* An exception nobody catches ends the run.
Raise(site) == pc' = "crashed" /\ raisedAt' = site

\* Lines 11-32: the header of the spreadsheet.  Lines 20-21 raise on a
\* malformed default-config cell and line 31 when no input is named
\* 'analysisSubmissionTag'.
ReadHeader ==
    /\ pc = "read"
    /\ LET keysCell == loc(spreadsheet, 0, ConfigKeysCol)
           valsCell == loc(spreadsheet, 0, ConfigValsCol)
           names == InputNames(spreadsheet)
       IN  IF HeaderCellOk(keysCell) /\ HeaderCellOk(valsCell)
              /\ \E i \in 1..Len(names) : names[i] = sTag
           THEN /\ defaultVals' = ParseDefaults(keysCell.s, valsCell.s)
                /\ inputs' = names
                /\ submissionTagIndex' = IndexOf(names, sTag)
                /\ input_length' = Len(names)
                /\ pc' = "setup"
                /\ UNCHANGED raisedAt
           ELSE /\ Raise("header")
                /\ UNCHANGED <<defaultVals, inputs, submissionTagIndex, input_length>>
    /\ UNCHANGED <<inVars, fwVars, histVars, runVars, starting_index, rowsTaken,
                   analysis_ids, fails, subjsess, session, project_inputs,
                   project_configs, analysis_label, gear_was_run_before>>

\* Lines 35-46: the gear and the project are looked up (fw.lookup raises
\* for an unknown one), then the cursor and the two lists are initialised.
LoadGearAndProject ==
    /\ pc = "setup"
    /\ LET gearPath == sGearsPath \o loc(spreadsheet, 0, GearNameCol).s
           projectPath == sGroupPath \o loc(spreadsheet, 0, ProjectLabelCol).s
       IN  IF loc(spreadsheet, 0, GearNameCol).s \in fwGears
           THEN /\ calls' = calls \o <<Call("lookup", gearPath, 0, FALSE),
                                        Call("lookup", projectPath, 0, FALSE)>>
                /\ starting_index' = StartingIndexInit
                /\ analysis_ids' = <<>>
                /\ fails' = <<>>
                /\ pc' = "for"
                /\ UNCHANGED raisedAt
           ELSE /\ calls' = Append(calls, Call("lookup", gearPath, 0, TRUE))
                /\ Raise("setup")
                /\ UNCHANGED <<starting_index, analysis_ids, fails>>
    /\ UNCHANGED <<inVars, fwVars, skipped, runVars, defaultVals, inputs,
                   submissionTagIndex, input_length, rowsTaken, subjsess, session,
                   project_inputs, project_configs, analysis_label,
                   gear_was_run_before>>

\* Lines 47-50: the for takes the next session name, the cursor advances and
\* the session is looked up; fw.lookup raises for an unknown session.
NextRow ==
    /\ pc = "for"
    /\ rowsTaken < Len(DataRows(spreadsheet))
    /\ LET name == DataRows(spreadsheet)[rowsTaken + 1]
       IN  /\ rowsTaken' = rowsTaken + 1
           /\ subjsess' = name
           /\ starting_index' = starting_index + 1
           /\ calls' = Append(calls, Call("lookup", sSessionPath \o name.s,
                                         FirstDataRow + rowsTaken,
                                         name.s \notin DOMAIN fwSessions))
           /\ IF name.s \in DOMAIN fwSessions
              THEN /\ session' = [name |-> name.s, analyses |-> fwSessions[name.s]]
                   /\ pc' = "build"
                   /\ UNCHANGED raisedAt
              ELSE /\ Raise("session")
                   /\ UNCHANGED session
    /\ UNCHANGED <<inVars, fwVars, skipped, runVars, defaultVals, inputs,
                   submissionTagIndex, input_length, analysis_ids, fails,
                   project_inputs, project_configs, analysis_label,
                   gear_was_run_before>>

\* Lines 51-70: the loop over the input columns builds the two maps and
\* reads the analysis label; project.get_file raises for an unknown file.
BuildMaps ==
    /\ pc = "build"
    /\ calls' = calls \o GetFileCalls(spreadsheet, defaultVals, input_length,
                                      starting_index, CurrentRow)
    /\ IF GetFileRaises(spreadsheet, defaultVals, input_length, starting_index)
       THEN /\ Raise("get_file")
            /\ UNCHANGED <<project_inputs, project_configs, analysis_label>>
       ELSE /\ project_inputs' =
                   BuildInputs(spreadsheet, defaultVals, input_length, starting_index)
            /\ project_configs' =
                   BuildConfigs(spreadsheet, defaultVals, input_length, starting_index)
            /\ analysis_label' =
                   AnalysisLabel(spreadsheet, submissionTagIndex, starting_index)
            /\ pc' = "check"
            /\ UNCHANGED raisedAt
    /\ UNCHANGED <<inVars, fwVars, skipped, runVars, defaultVals, inputs,
                   submissionTagIndex, input_length, starting_index, rowsTaken,
                   analysis_ids, fails, subjsess, session, gear_was_run_before>>

\* Lines 73-79: the analyses of the session are compared with the label.
CheckDuplicate ==
    /\ pc = "check"
    /\ gear_was_run_before' = GearWasRunBefore(session.analyses, analysis_label)
    /\ pc' = "submit"
    /\ UNCHANGED <<inVars, fwVars, histVars, runVars, raisedAt, defaultVals, inputs,
                   submissionTagIndex, input_length, starting_index, rowsTaken,
                   analysis_ids, fails, subjsess, session, project_inputs,
                   project_configs, analysis_label>>

\* A slip in ShouldRun: overwrite_existing = 'all' runs the gear again.
ShouldRunOrOverwrite(flags, mode) == IF mode = sAll THEN TRUE ELSE NotRunBefore(flags)

\* Line 81: whether gear.run is called for the row.
ShouldRun(flags, mode) == NotRunBefore(flags)

\* Lines 84-85: the request gear_loaded.run receives.
Request ==
    [analysis_label |-> analysis_label, config |-> project_configs,
     inputs |-> project_inputs, destination |-> session]

\* How the platform answers the next request: as it answered the request of
\* the same number before, if it did, and either way otherwise.
Answers ==
    LET n == Len(Runs(calls))
    IN  IF n < Len(fwRaises) THEN {fwRaises[n + 1]} ELSE BOOLEAN

Answered(raised) ==
    fwRaises' = IF Len(Runs(calls)) < Len(fwRaises) THEN fwRaises
                ELSE Append(fwRaises, raised)

\* Lines 81-86: gear.run returns the id of the new job, which is appended to
\* analysis_ids; the platform attaches the analysis to the session.
GearRunReturns ==
    /\ pc = "submit"
    /\ ShouldRun(gear_was_run_before, overwrite_existing)
    /\ FALSE \in Answers
    /\ Answered(FALSE)
    /\ calls' = Append(calls, Call("run", Request, CurrentRow, FALSE))
    /\ analysis_ids' = Append(analysis_ids, fwNextId)
    /\ fwNextId' = fwNextId + 1
    /\ fwSessions' = [fwSessions EXCEPT ![session.name] = Append(@, analysis_label.s)]
    /\ pc' = "for"
    /\ UNCHANGED <<inVars, runVars, fwGears, skipped, raisedAt, defaultVals, inputs,
                   submissionTagIndex, input_length, starting_index, rowsTaken,
                   fails, subjsess, session, project_inputs, project_configs,
                   analysis_label, gear_was_run_before>>

\* A slip in GearRunRaises: the job id is recorded although gear.run raised.
GearRunRaisesKeepsId ==
    /\ pc = "submit"
    /\ ShouldRun(gear_was_run_before, overwrite_existing)
    /\ TRUE \in Answers
    /\ Answered(TRUE)
    /\ calls' = Append(calls, Call("run", Request, CurrentRow, TRUE))
    /\ fails' = Append(fails, session)
    /\ analysis_ids' = Append(analysis_ids, fwNextId)
    /\ pc' = "for"
    /\ UNCHANGED <<inVars, runVars, fwGears, fwSessions, fwNextId, skipped, raisedAt,
                   defaultVals, inputs, submissionTagIndex, input_length,
                   starting_index, rowsTaken, subjsess, session,
                   project_inputs, project_configs, analysis_label,
                   gear_was_run_before>>

\* A slip in GearRunRaises: the exception of gear.run is not caught.
GearRunRaisesUncaught ==
    /\ pc = "submit"
    /\ ShouldRun(gear_was_run_before, overwrite_existing)
    /\ TRUE \in Answers
    /\ Answered(TRUE)
    /\ calls' = Append(calls, Call("run", Request, CurrentRow, TRUE))
    /\ pc' = "crashed"
    /\ raisedAt' = "gear.run"
    /\ UNCHANGED <<inVars, runVars, fwGears, fwSessions, fwNextId, skipped,
                   defaultVals, inputs, submissionTagIndex, input_length,
                   starting_index, rowsTaken, analysis_ids, fails, subjsess, session,
                   project_inputs, project_configs, analysis_label,
                   gear_was_run_before>>

\* Lines 81-85, 87-89: gear.run raises; the exception is printed and the
\* session is appended to fails.
GearRunRaises ==
    /\ pc = "submit"
    /\ ShouldRun(gear_was_run_before, overwrite_existing)
    /\ TRUE \in Answers
    /\ Answered(TRUE)
    /\ calls' = Append(calls, Call("run", Request, CurrentRow, TRUE))
    /\ fails' = Append(fails, session)
    /\ pc' = "for"
    /\ UNCHANGED <<inVars, runVars, fwGears, fwSessions, fwNextId, skipped, raisedAt,
                   defaultVals, inputs, submissionTagIndex, input_length,
                   starting_index, rowsTaken, analysis_ids, subjsess, session,
                   project_inputs, project_configs, analysis_label,
                   gear_was_run_before>>

\* A slip in SkipRow: the skipped session is recorded as a failure.
SkipRowRecordsFailure ==
    /\ pc = "submit"
    /\ ~ShouldRun(gear_was_run_before, overwrite_existing)
    /\ skipped' = skipped + 1
    /\ fails' = Append(fails, session)
    /\ pc' = "for"
    /\ UNCHANGED <<inVars, runVars, fwVars, calls, raisedAt, defaultVals, inputs,
                   submissionTagIndex, input_length, starting_index, rowsTaken,
                   analysis_ids, subjsess, session, project_inputs,
                   project_configs, analysis_label, gear_was_run_before>>

\* Lines 81, 90-91: an analysis with the label exists; only a message is
\* printed.
SkipRow ==
    /\ pc = "submit"
    /\ ~ShouldRun(gear_was_run_before, overwrite_existing)
    /\ skipped' = skipped + 1
    /\ pc' = "for"
    /\ UNCHANGED <<inVars, runVars, fwVars, calls, raisedAt, defaultVals, inputs,
                   submissionTagIndex, input_length, starting_index, rowsTaken,
                   analysis_ids, fails, subjsess, session, project_inputs,
                   project_configs, analysis_label, gear_was_run_before>>

\* Line 47: the for has no more rows and submitFmriprep returns.
Finish ==
    /\ pc = "for"
    /\ rowsTaken = Len(DataRows(spreadsheet))
    /\ pc' = "done"
    /\ UNCHANGED <<inVars, fwVars, histVars, runVars, raisedAt, defaultVals, inputs,
                   submissionTagIndex, input_length, starting_index, rowsTaken,
                   analysis_ids, fails, subjsess, session, project_inputs,
                   project_configs, analysis_label, gear_was_run_before>>

Next ==
    \/ ReadHeader
    \/ LoadGearAndProject
    \/ NextRow
    \/ BuildMaps
    \/ CheckDuplicate
    \/ GearRunReturns
    \/ GearRunRaises
    \/ SkipRow
    \/ Finish

Spec == Init /\ [][Next]_vars

\* ------------------------------------------------------------------- claims
\* The number of data rows of the spreadsheet.
NumRows == spreadsheet.nrows - FirstDataRow

IsPrefix(a, b) == Len(a) <= Len(b) /\ \A i \in 1..Len(a) : a[i] = b[i]

\* The platform holds an analysis of the looked-up session whose label is
\* the row's label.
DuplicateOnPlatform ==
    \E i \in 1..Len(fwSessions[session.name]) :
        Str(fwSessions[session.name][i]) = analysis_label

\* The step calls gear.run.
RunStep == Len(Runs(calls')) = Len(Runs(calls)) + 1

\* C1: when the run has returned without skipping a row (no label matched an
\* existing analysis) the gear.run requests are exactly one per data row, in
\* row order, each with that row's session as destination.
C1_OneRequestPerRow ==
    (pc = "done" /\ skipped = 0) =>
        LET rs == Runs(calls)
        IN  /\ Len(rs) = NumRows
            /\ \A i \in 1..Len(rs) :
                  /\ rs[i].row = FirstDataRow + i - 1
                  /\ rs[i].arg.destination.name =
                        loc(spreadsheet, FirstDataRow + i - 1, 0).s

C1_Witness ==
    pc = "done" /\ skipped = 0 /\ NumRows >= 2 /\ Len(Runs(calls)) = NumRows

\* C3: a step taken when the session already has an analysis with the row's
\* label calls nothing and leaves analysis_ids and fails as they are; a step
\* that calls gear.run is taken only when no analysis of the session has the
\* label.
C3_DuplicateSkipped ==
    [][ /\ (pc = "submit" /\ DuplicateOnPlatform) =>
              (calls' = calls /\ analysis_ids' = analysis_ids /\ fails' = fails)
        /\ RunStep => (pc = "submit" /\ ~DuplicateOnPlatform) ]_vars

C3_Witness == skipped >= 1 /\ pc = "for" /\ DuplicateOnPlatform

\* C4: a gear.run that raises appends the row's session to fails once, leaves
\* analysis_ids as it is and returns to the head of the loop, which goes on
\* to the last row; fails holds exactly the sessions of the requests that
\* raised.
C4_FailureContinues ==
    /\ [][ (RunStep /\ calls'[Len(calls')].raised) =>
              /\ fails' = Append(fails, session)
              /\ analysis_ids' = analysis_ids
              /\ pc' = "for"
              /\ rowsTaken' = rowsTaken ]_vars
    /\ [](LET raised == SelectSeq(Runs(calls), LAMBDA q : q.raised)
          IN  /\ Len(fails) = Len(raised)
              /\ \A i \in 1..Len(raised) : fails[i] = raised[i].arg.destination
              /\ Len(analysis_ids) = Len(Runs(calls)) - Len(raised)
              /\ pc = "done" => rowsTaken = NumRows)

C4_Witness == Len(fails) >= 1 /\ rowsTaken = 2 /\ pc = "build"

\* The columns whose header cell in row 1 is 'analysisSubmissionTag'.
TagCols == {c \in 0..ConfigValsCol : loc(spreadsheet, InputNameRow, c) = Str(sTag)}

C10_OneOutcomePerRow ==
    /\ [](LET rs == Runs(calls)
              done == Len(analysis_ids) + Len(fails) + skipped
          IN  /\ Len(rs) = Len(analysis_ids) + Len(fails)
              /\ \A i, j \in 1..Len(rs) : i < j => rs[i].row < rs[j].row
              /\ pc \in {"for", "done"} => done = rowsTaken
              /\ pc \in {"build", "check", "submit"} => done = rowsTaken - 1)
    /\ [][IsPrefix(analysis_ids, analysis_ids') /\ IsPrefix(fails, fails')]_vars

C10_Witness ==
    pc = "done" /\ Len(analysis_ids) = 1 /\ Len(fails) = 1 /\ rowsTaken = 2

\* The role cell (row 4) of column c is role.
HasRole(c, role) == loc(spreadsheet, RoleRow, c) = Str(role)

\* The key (row 1) of column c.
KeyOf(c) == loc(spreadsheet, InputNameRow, c).s

\* C2, as stated: in every gear.run request, for every 'config' or 'project'
\* column, the value under the column's key is the default value when the
\* key has one, and otherwise the literal cell of the request's row (config)
\* or the file reference for that cell (project).
C2_DefaultsWin_Original ==
    \A i \in 1..Len(calls) : \A c \in 0..ConfigValsCol :
        calls[i].op = "run" =>
            /\ HasRole(c, sConfig) =>
                  calls[i].arg.config[KeyOf(c)] =
                      IF KeyOf(c) \in DOMAIN defaultVals
                      THEN defaultVals[KeyOf(c)]
                      ELSE loc(spreadsheet, calls[i].row, c)
            /\ HasRole(c, sProject) =>
                  calls[i].arg.inputs[KeyOf(c)] =
                      IF KeyOf(c) \in DOMAIN defaultVals
                      THEN defaultVals[KeyOf(c)]
                      ELSE FileRef(loc(spreadsheet, calls[i].row, c).s)

\* The boolean for one of the four spellings 'true', 'True', 'false',
\* 'False'; any other value as it is.
AsBoolean(v) ==
    IF v \in {Str(sTrue), Str(sCapTrue)} THEN Bool(TRUE)
    ELSE IF v \in {Str(sFalse), Str(sCapFalse)} THEN Bool(FALSE)
    ELSE v

\* C2, amended: as above, except that a literal config cell that is exactly
\* 'true', 'True', 'false' or 'False' is placed as the boolean it spells.
C2_DefaultsWin ==
    \A i \in 1..Len(calls) : \A c \in 0..ConfigValsCol :
        calls[i].op = "run" =>
            /\ HasRole(c, sConfig) =>
                  calls[i].arg.config[KeyOf(c)] =
                      IF KeyOf(c) \in DOMAIN defaultVals
                      THEN defaultVals[KeyOf(c)]
                      ELSE AsBoolean(loc(spreadsheet, calls[i].row, c))
            /\ HasRole(c, sProject) =>
                  calls[i].arg.inputs[KeyOf(c)] =
                      IF KeyOf(c) \in DOMAIN defaultVals
                      THEN defaultVals[KeyOf(c)]
                      ELSE FileRef(loc(spreadsheet, calls[i].row, c).s)

\* A request was made for a row with a column whose key has a default that
\* differs from the row's cell, a config column without default whose cell
\* spells a boolean, and a project column resolved to a file.
C2_Witness ==
    \E i \in 1..Len(calls) :
        /\ calls[i].op = "run"
        /\ \E c \in 1..input_length :
              /\ HasRole(c, sConfig)
              /\ KeyOf(c) \notin DOMAIN defaultVals
              /\ loc(spreadsheet, calls[i].row, c) = Str(sTrue)
        /\ \E c \in 1..input_length :
              /\ HasRole(c, sProject)
              /\ KeyOf(c) \in DOMAIN defaultVals
              /\ defaultVals[KeyOf(c)] # loc(spreadsheet, calls[i].row, c)

\* A boolean token in any casing becomes the boolean, anything else stays.
CaseInsensitiveCoerce(v) ==
    IF v.t = "str" /\ Lower(v.s) \in {sTrue, sFalse}
    THEN Bool(Lower(v.s) = sTrue)
    ELSE v

\* The header was read without an exception.
HeaderRead == pc # "read" /\ raisedAt # "header"

\* C5: the coercion turns every casing of 'true' and 'false' into the
\* boolean and leaves every other string as it is, for the default values,
\* the resolved project inputs and the resolved config values, and coercing
\* a coerced value changes nothing.
C5_CaseInsensitiveCoercion ==
    /\ HeaderRead =>
          LET K == spreadsheet.keyTokens
              V == spreadsheet.valTokens
              n == Min(Len(K), Len(V))
          IN  \A i \in 1..n :
                  (\A j \in (i+1)..n : Remove(K[j], "'") # Remove(K[i], "'")) =>
                      defaultVals[Remove(K[i], "'")] = CaseInsensitiveCoerce(Str(V[i]))
    /\ \A i \in 1..Len(calls) : \A c \in 1..input_length :
          (calls[i].op = "run" /\ KeyOf(c) \notin DOMAIN defaultVals) =>
              /\ HasRole(c, sConfig) =>
                    calls[i].arg.config[KeyOf(c)] =
                        CaseInsensitiveCoerce(loc(spreadsheet, calls[i].row, c))
              /\ HasRole(c, sProject) =>
                    calls[i].arg.inputs[KeyOf(c)] =
                        CaseInsensitiveCoerce(FileRef(loc(spreadsheet, calls[i].row, c).s))
    /\ \A k \in DOMAIN defaultVals : CoerceDefault(defaultVals[k]) = defaultVals[k]
    /\ \A k \in DOMAIN project_inputs : CoerceInput(project_inputs[k]) = project_inputs[k]
    /\ \A k \in DOMAIN project_configs : CoerceConfig(project_configs[k]) = project_configs[k]

\* C7, as stated: once the row loop has started no exception ends the run.
C7_NeverAborts_Original == pc = "crashed" => raisedAt \in {"header", "setup"}

\* C7, amended: once the row loop has started, an exception of gear.run never
\* ends the run and the loop goes on; the only exceptions that end it are
\* those of the session lookup and of project.get_file, each the last call
\* the run makes; the run returns only when every data row has been
\* processed.
C7_NeverAborts ==
    /\ [](pc = "crashed" => raisedAt \in {"header", "setup", "session", "get_file"})
    /\ [][RunStep => (pc' = "for" /\ raisedAt' = "none")]_vars
    /\ []((pc = "crashed" /\ raisedAt \in {"session", "get_file"}) =>
              /\ calls[Len(calls)].raised
              /\ calls[Len(calls)].op = (IF raisedAt = "session" THEN "lookup" ELSE "get_file")
              /\ calls[Len(calls)].row = CurrentRow)
    /\ [](pc = "done" => (rowsTaken = NumRows /\ raisedAt = "none"))

C7_Witness ==
    /\ pc = "done"
    /\ rowsTaken = 2
    /\ \E i \in 1..Len(calls) : calls[i].op = "run" /\ calls[i].raised /\ calls[i].row = FirstDataRow

\* ------------------------------------------- the default-config cells alone
\* The non-empty sequences over S of length at most n.
ListsUpTo(S, n) == UNION {[1..m -> S] : m \in 1..n}

KeyTokens == {sA, sB, sQuotedA, <<>>}
ValTokens == {sOne, sTrue, sCapFalse, sUpTrue, sF1, <<>>}

\* Spreadsheets without data rows whose default-config cells are written
\* from every list of keys and of values.
ParseSheets ==
    { MkSheet(Written(K, V),
              [hdr |-> <<sA, sB, sTag>>, roles |-> <<sProject, sConfig, <<>> >>],
              <<>>) :
        K \in ListsUpTo(KeyTokens, MaxTokens), V \in ListsUpTo(ValTokens, MaxTokens) }

InitParse == InitWith(ParseSheets, {sNever})

NextParse == ReadHeader

SpecParse == InitParse /\ [][NextParse]_vars

\* The value a token of the value list stands for: the boolean for 'true',
\* 'True', 'false' and 'False', the string itself otherwise.
ExpectedDefault(tok) ==
    IF tok \in {sTrue, sCapTrue} THEN Bool(TRUE)
    ELSE IF tok \in {sFalse, sCapFalse} THEN Bool(FALSE)
    ELSE Str(tok)

\* C6: defaultVals has exactly the keys of the key list that have a value at
\* their position; the i-th key (a key that occurs again keeps its last
\* pairing) maps to the i-th value, a boolean for a boolean token and the
\* string otherwise; "{a,b}" and "{1,true}" give {a: "1", b: True}.
C6_DefaultsParsed ==
    (pc = "setup") =>
        LET K == spreadsheet.keyTokens
            V == spreadsheet.valTokens
            n == Min(Len(K), Len(V))
            key(i) == SelectSeq(K[i], LAMBDA ch : ch # "'")
        IN  /\ DOMAIN defaultVals = {key(i) : i \in 1..n}
            /\ \A i \in 1..n :
                  (\A j \in (i+1)..n : key(j) # key(i)) =>
                      defaultVals[key(i)] = ExpectedDefault(V[i])
            /\ (K = <<sA, sB>> /\ V = <<sOne, sTrue>>) =>
                  defaultVals = (sA :> Str(sOne)) @@ (sB :> Bool(TRUE))

C6_Witness ==
    /\ pc = "setup"
    /\ loc(spreadsheet, 0, ConfigKeysCol) = Str(<<"{", "a", ",", "b", "}">>)
    /\ loc(spreadsheet, 0, ConfigValsCol) = Str(<<"{", "1", ",", "t", "r", "u", "e", "}">>)
    /\ defaultVals[sA] = Str(sOne)
    /\ defaultVals[sB] = Bool(TRUE)

\* ------------------------------------------------------ two successive runs
\* submitFmriprep is called again with the same spreadsheet, another value
\* of overwrite_existing and the platform as it was before the first run;
\* the platform answers the requests as it answered them in the first run.
Restart ==
    /\ pc \in {"done", "crashed"}
    /\ runNo = 1
    /\ runNo' = 2
    /\ firstRun' = [calls |-> calls, analysis_ids |-> analysis_ids,
                    fails |-> fails, pc |-> pc]
    /\ overwrite_existing' \in Modes \ {overwrite_existing}
    /\ fwSessions' = fwSessions0
    /\ fwNextId' = 1
    /\ pc' = "read"
    /\ raisedAt' = "none"
    /\ defaultVals' = <<>>
    /\ inputs' = <<>>
    /\ submissionTagIndex' = 0
    /\ input_length' = 0
    /\ starting_index' = 0
    /\ rowsTaken' = 0
    /\ analysis_ids' = <<>>
    /\ fails' = <<>>
    /\ subjsess' = Unbound
    /\ session' = Unbound
    /\ project_inputs' = <<>>
    /\ project_configs' = <<>>
    /\ analysis_label' = Unbound
    /\ gear_was_run_before' = <<>>
    /\ calls' = <<>>
    /\ skipped' = 0
    /\ UNCHANGED <<spreadsheet, fwGears, fwRaises, fwSessions0>>

InitTwoRuns == InitWith(Sheets, Modes)

NextTwoRuns == Next \/ Restart

SpecTwoRuns == InitTwoRuns /\ [][NextTwoRuns]_vars

\* The same platform calls in the same order.
SameCalls(a, b) ==
    /\ Len(a) = Len(b)
    /\ \A i \in 1..Len(a) :
          /\ a[i].op = b[i].op
          /\ a[i].raised = b[i].raised
          /\ a[i].arg = b[i].arg

\* C8: the second of two runs that differ only in overwrite_existing ends as
\* the first did, after the same platform calls and with the same job ids
\* and failures; no step removes or replaces an analysis of a session.
C8_OverwriteUnused ==
    /\ (runNo = 2 /\ pc \in {"done", "crashed"}) =>
          /\ pc = firstRun.pc
          /\ SameCalls(firstRun.calls, calls)
          /\ analysis_ids = firstRun.analysis_ids
          /\ fails = firstRun.fails
    /\ \A se \in DOMAIN fwSessions0 :
          se \in DOMAIN fwSessions /\ IsPrefix(fwSessions0[se], fwSessions[se])

C8_Witness ==
    /\ runNo = 2
    /\ pc = "done"
    /\ overwrite_existing = sAll
    /\ skipped >= 1
    /\ Len(analysis_ids) >= 1

=============================================================================
